---- MODULE Spec2Model ----
(***************************************************************************)
(* Primordia: the heuristic position evaluator                             *)
(* (src/src/primordia/evaluation.py) over the game-state model             *)
(* (src/src/primordia/models.py).                                          *)
(*                                                                         *)
(* Python floats are modelled by exact rationals in lowest terms, so that  *)
(* equal values are equal records.  Binary rounding is not modelled.  On   *)
(* the inputs below the floats of the source decide every comparison of    *)
(* evaluate as the exact values do, except at turn_number = -3, where the  *)
(* float sum 0.3 + (-3 * 0.1) is -5.55e-17 and the exact sum is 0; that    *)
(* turn number is left out of the inputs.                                  *)
(***************************************************************************)
EXTENDS Integers, Sequences, FiniteSets, TLC

(***************************************************************************)
(* Bounds of the model.                                                    *)
(***************************************************************************)
\* Units on the battlefield, both rosters together.
MaxUnits == 2
\* Turn numbers run from -BelowTurns to MaxTurn (turn_number is an
\* unvalidated int, models.py:114).
MaxTurn == 7
BelowTurns == 4

(***************************************************************************)
(* Rational arithmetic.                                                    *)
(***************************************************************************)
Abs(x) == IF x < 0 THEN -x ELSE x

RECURSIVE GCD(_, _)
GCD(a, b) == IF b = 0 THEN a ELSE GCD(b, a % b)

\* n/d in lowest terms with a positive denominator (d # 0).
Rat(n, d) ==
    LET g == GCD(Abs(n), Abs(d))
        s == IF d < 0 THEN -1 ELSE 1
    IN  [n |-> s * (n \div g), d |-> Abs(d) \div g]

Zero == Rat(0, 1)
One == Rat(1, 1)
RNeg(a) == [n |-> -a.n, d |-> a.d]
RAdd(a, b) == Rat(a.n * b.d + b.n * a.d, a.d * b.d)
RMul(a, b) == Rat(a.n * b.n, a.d * b.d)
RLt(a, b) == a.n * b.d < b.n * a.d
RLe(a, b) == a.n * b.d <= b.n * a.d
RAbs(a) == [n |-> Abs(a.n), d |-> a.d]
RMin(a, b) == IF RLt(b, a) THEN b ELSE a
RMax(a, b) == IF RLt(a, b) THEN b ELSE a

\* Python's a / b on ints: raises ZeroDivisionError when b = 0, shown here
\* as the value with denominator 0.
ZeroDivision == [n |-> 0, d |-> 0]
TrueDiv(a, b) == IF b = 0 THEN ZeroDivision ELSE Rat(a, b)

(***************************************************************************)
(* models.py                                                               *)
(***************************************************************************)
UnitStatus == {"ACTIVE", "DESTROYED", "FLED", "IN_RESERVE"}

is_alive_status_only(u) == u.status = "ACTIVE"

is_alive(u) == u.status = "ACTIVE" /\ u.wounds_current > 0

(***************************************************************************)
(* evaluation.py: HeuristicEvaluator.evaluate, line by line.               *)
(***************************************************************************)
\* sum(u.points_cost for u in units if u.is_alive)
RECURSIVE living_points(_)
living_points(units) ==
    IF units = <<>> THEN 0
    ELSE (IF is_alive(Head(units)) THEN Head(units).points_cost ELSE 0)
         + living_points(Tail(units))

material_score_unguarded(p1_points, p2_points) ==
    LET total_points == p1_points + p2_points
    IN  IF total_points >= 0
        THEN TrueDiv(p1_points - p2_points, total_points)
        ELSE Zero

material_score(p1_points, p2_points) ==
    LET total_points == p1_points + p2_points
    IN  IF total_points > 0
        THEN TrueDiv(p1_points - p2_points, total_points)
        ELSE Zero

material_factor_inclusive(ms) ==
    IF RLe(Rat(1, 10), RAbs(ms))
    THEN <<IF RLt(Zero, ms) THEN "Player 1 has more material"
                            ELSE "Player 2 has more material">>
    ELSE <<>>

material_factor_no_abs(ms) ==
    IF RLt(Rat(1, 10), ms)
    THEN <<IF RLt(Zero, ms) THEN "Player 1 has more material"
                            ELSE "Player 2 has more material">>
    ELSE <<>>

material_factor(ms) ==
    IF RLt(Rat(1, 10), RAbs(ms))
    THEN <<IF RLt(Zero, ms) THEN "Player 1 has more material"
                            ELSE "Player 2 has more material">>
    ELSE <<>>

vp_score_no_floor(player1_vp, player2_vp) ==
    LET vp_diff == player1_vp - player2_vp
        max_vp == player1_vp + player2_vp
    IN  IF max_vp > 0 THEN TrueDiv(vp_diff, max_vp) ELSE Zero

vp_score(player1_vp, player2_vp) ==
    LET vp_diff == player1_vp - player2_vp
        max_vp == IF player1_vp + player2_vp > 1
                  THEN player1_vp + player2_vp ELSE 1
    IN  IF max_vp > 0 THEN TrueDiv(vp_diff, max_vp) ELSE Zero

vp_factor_exclusive(vp_diff) ==
    IF Abs(vp_diff) > 5
    THEN <<IF vp_diff > 0 THEN "Player 1 leads on VP"
                          ELSE "Player 2 leads on VP">>
    ELSE <<>>

vp_factor(vp_diff) ==
    IF Abs(vp_diff) >= 5
    THEN <<IF vp_diff > 0 THEN "Player 1 leads on VP"
                          ELSE "Player 2 leads on VP">>
    ELSE <<>>

key_factors_vp_first(ms, vp_diff) == vp_factor(vp_diff) \o material_factor(ms)

\* The list built by the two appends, lines 76, 93 and 102.
key_factors(ms, vp_diff) == material_factor(ms) \o vp_factor(vp_diff)

player_advantage_unclamped(ms, vs) ==
    RAdd(RMul(ms, Rat(4, 10)), RMul(vs, Rat(6, 10)))

player_advantage_swapped(ms, vs) ==
    RMax(RNeg(One),
         RMin(One, RAdd(RMul(ms, Rat(6, 10)), RMul(vs, Rat(4, 10)))))

player_advantage(ms, vs) ==
    RMax(RNeg(One),
         RMin(One, RAdd(RMul(ms, Rat(4, 10)), RMul(vs, Rat(6, 10)))))

confidence(turn_number) ==
    RMin(RAdd(Rat(3, 10), RMul(Rat(turn_number, 1), Rat(1, 10))), Rat(9, 10))

\* 1 / (1 + math.exp(-x)), line 109 with x = player_advantage * 3.  exp has
\* no exact value in integers, so the value is kept as a term.  It lies
\* strictly between 0 and 1 for every real x.
Logistic(x) == [logistic |-> x]

\* Field(ge=lo, le=hi) of lines 29-32 on a float.
InRange(v, lo, hi) ==
    IF "logistic" \in DOMAIN v THEN RLe(lo, Zero) /\ RLe(One, hi)
    ELSE RLe(lo, v) /\ RLe(v, hi)

PositionEvaluation_no_lower(args) ==
    LET valid == /\ InRange(args.player_advantage, args.player_advantage, One)
                 /\ InRange(args.win_probability, Zero, One)
                 /\ InRange(args.confidence, Zero, One)
    IN  [args EXCEPT !.raised = IF valid THEN "none" ELSE "ValidationError"]

\* The constructor PositionEvaluation(...): pydantic checks the Field
\* constraints of lines 29-32 and raises ValidationError when one fails.
PositionEvaluation(args) ==
    LET valid == /\ InRange(args.player_advantage, RNeg(One), One)
                 /\ InRange(args.win_probability, Zero, One)
                 /\ InRange(args.confidence, Zero, One)
    IN  [args EXCEPT !.raised = IF valid THEN "none" ELSE "ValidationError"]

evaluate(s) ==
    LET p1_points == living_points(s.player1_units)
        p2_points == living_points(s.player2_units)
        ms == material_score(p1_points, p2_points)
        vp_diff == s.player1_vp - s.player2_vp
        vs == vp_score(s.player1_vp, s.player2_vp)
    IN  IF ms = ZeroDivision \/ vs = ZeroDivision
        THEN [raised |-> "ZeroDivisionError"]
        ELSE PositionEvaluation(
                 [raised |-> "none",
                  player_advantage |-> player_advantage(ms, vs),
                  win_probability |->
                      Logistic(RMul(player_advantage(ms, vs), Rat(3, 1))),
                  key_factors |-> key_factors(ms, vp_diff),
                  confidence |-> confidence(s.turn_number),
                  material_score |-> ms,
                  position_score |-> Zero,
                  tempo_score |-> Zero,
                  vp_score |-> vs])

(***************************************************************************)
(* Inputs.                                                                 *)
(***************************************************************************)
PointsVals == {-50, 0, 45, 50, 55, 200}
WoundsVals == {0, 2}
VPVals == {-4, 0, 1, 10}
TurnVals == ((0 - BelowTurns)..MaxTurn) \ {-3}

\* Every living unit, and the units that are not alive for one reason each
\* (the cost of a unit that is not alive never reaches the score).
UnitVals ==
    {u \in [status : UnitStatus, wounds_current : WoundsVals,
            points_cost : PointsVals] :
        \/ u.status = "ACTIVE" /\ u.wounds_current > 0
        \/ /\ u.points_cost = 200
           /\ (u.status = "ACTIVE") # (u.wounds_current > 0)}

Rosters(n) == [1..n -> UnitVals]

\* turn_number reaches the result through the confidence alone
\* (evaluation.py:112): every turn number is tried with at most one unit,
\* and the default turn_number = 1 with every roster.
TurnsOf(n) == IF n <= 1 THEN TurnVals ELSE {1}

\* GameState(turn_number=..., player1_units=..., player2_units=...,
\* player1_vp=..., player2_vp=...): the fields evaluate reads.
GameStates ==
    UNION {[turn_number : TurnsOf(n1 + n2),
            player1_units : Rosters(n1), player2_units : Rosters(n2),
            player1_vp : VPVals, player2_vp : VPVals] :
           <<n1, n2>> \in {nn \in (0..MaxUnits) \X (0..MaxUnits) :
                              nn[1] + nn[2] <= MaxUnits}}

NoEvaluation == [raised |-> "not called"]

\* One call of evaluate as a whole: its argument and its outcome.
VARIABLES state, evaluation
\* Calls of evaluate statement by statement, on several threads: the
\* GameState objects, the frame of each thread and the list objects made
\* by line 76.
VARIABLES games, frames, lists
\* A GameState built from rosters of units with ids, and what get_unit and
\* active_units returned on it.
VARIABLES game, lookup, listing
\* A PositionEvaluation object built by its constructor, and what explain
\* returned on it.
VARIABLES obj, explained
\* What evaluate returned on the state with the two players exchanged.
VARIABLES mirrored
\* An OpeningBookDB: the module flag HAS_DUCKDB, the attribute _conn, the
\* rows of the table historical_games in the database file, the reading of
\* CURRENT_TIMESTAMP at the last row stored, and the outcome of the last
\* call.
VARIABLES HAS_DUCKDB, conn, historical_games, now, reply
\* A GameStateEncoder, the GameState given to encode and the EncodedState
\* it returned.
VARIABLES encoder, full_state, encoded
vars == <<state, evaluation, games, frames, lists, game, lookup, listing,
          obj, explained, mirrored, HAS_DUCKDB, conn, historical_games, now,
          reply, encoder, full_state, encoded>>

callVars == <<games, frames, lists>>
NoCalls == games = <<>> /\ frames = <<>> /\ lists = <<>>

rosterVars == <<game, lookup, listing>>
NoGame == [raised |-> "not constructed"]
NoRoster == game = NoGame /\ lookup = <<>> /\ listing = <<>>

objVars == <<obj, explained>>
NoObject == [raised |-> "not constructed"]
NoObj == obj = NoObject /\ explained = <<>>

dbVars == <<HAS_DUCKDB, conn, historical_games, now, reply>>
NoReply == [op |-> "none"]
NoDB ==
    /\ HAS_DUCKDB = FALSE /\ conn = "None" /\ historical_games = {}
    /\ now = 0 /\ reply = NoReply

encVars == <<encoder, full_state, encoded>>
NoEnc == encoder = <<>> /\ full_state = <<>> /\ encoded = <<>>

laterVars == <<mirrored, dbVars, encVars>>
NoLater == mirrored = NoEvaluation /\ NoDB /\ NoEnc

Init ==
    /\ state \in GameStates
    /\ evaluation = NoEvaluation
    /\ NoCalls /\ NoRoster /\ NoObj /\ NoLater

\* result = HeuristicEvaluator().evaluate(state)
Evaluate ==
    /\ evaluation = NoEvaluation
    /\ evaluation' = evaluate(state)
    /\ UNCHANGED state
    /\ UNCHANGED <<callVars, rosterVars, objVars, laterVars>>

Next == Evaluate

Spec == Init /\ [][Next]_vars

(***************************************************************************)
(* evaluate on a state and on the state with the players exchanged.        *)
(***************************************************************************)
MirrorTurns == {-4, 1, 7}

MirrorStates ==
    UNION {[turn_number : MirrorTurns,
            player1_units : Rosters(n1), player2_units : Rosters(n2),
            player1_vp : VPVals, player2_vp : VPVals] :
           <<n1, n2>> \in {nn \in (0..MaxUnits) \X (0..MaxUnits) :
                              nn[1] + nn[2] <= MaxUnits}}

\* GameState(turn_number=s.turn_number, player1_units=s.player2_units,
\* player2_units=s.player1_units, player1_vp=s.player2_vp,
\* player2_vp=s.player1_vp)
swap_players(s) ==
    [turn_number |-> s.turn_number,
     player1_units |-> s.player2_units, player2_units |-> s.player1_units,
     player1_vp |-> s.player2_vp, player2_vp |-> s.player1_vp]

InitMirror ==
    /\ state \in MirrorStates
    /\ evaluation = NoEvaluation
    /\ mirrored = NoEvaluation
    /\ NoCalls /\ NoRoster /\ NoObj /\ NoDB /\ NoEnc

\* other = HeuristicEvaluator().evaluate(swapped), after the call on state.
EvaluateMirrored ==
    /\ evaluation # NoEvaluation
    /\ mirrored = NoEvaluation
    /\ mirrored' = evaluate(swap_players(state))
    /\ UNCHANGED <<state, evaluation, callVars, rosterVars, objVars, dbVars,
                   encVars>>

NextMirror == Evaluate \/ EvaluateMirrored

SpecMirror == InitMirror /\ [][NextMirror]_vars

(***************************************************************************)
(* evaluate statement by statement, called from several threads.           *)
(***************************************************************************)
\* Calls of evaluate made in one run.
MaxCalls == 3

Threads == {1, 2}
\* HeuristicEvaluator instances; the class has no attribute (lines 58-66).
Evaluators == {1, 2}

FullUnit(status, wounds, points) ==
    [status |-> status, wounds_current |-> wounds, points_cost |-> points,
     has_moved |-> FALSE, has_shot |-> FALSE, has_charged |-> FALSE,
     has_fought |-> FALSE]

FullState(turn, p1, p2, vp1, vp2) ==
    [turn_number |-> turn, current_phase |-> "COMMAND", active_player |-> 1,
     player1_units |-> p1, player2_units |-> p2,
     player1_vp |-> vp1, player2_vp |-> vp2, move_history |-> <<>>]

CallStates ==
    {FullState(1, <<>>, <<>>, 0, 0),
     FullState(1, <<FullUnit("ACTIVE", 2, 200)>>,
                  <<FullUnit("ACTIVE", 2, 50)>>, 0, 0),
     FullState(2, <<FullUnit("ACTIVE", 2, 50),
                    FullUnit("DESTROYED", 2, 200)>>,
                  <<FullUnit("ACTIVE", 2, 200)>>, 10, 0),
     FullState(3, <<>>, <<FullUnit("ACTIVE", 0, 200)>>, 1, 10)}

IdleFrame ==
    [pc |-> "idle", self |-> 0, arg |-> 0, key_factors |-> 0,
     material_score |-> Zero, vp_score |-> Zero, result |-> NoEvaluation]

InitCalls ==
    /\ games \in [1..2 -> CallStates]
    /\ frames = [t \in Threads |-> IdleFrame]
    /\ lists = <<>>
    /\ state = <<>>
    /\ evaluation = NoEvaluation
    /\ NoRoster /\ NoObj /\ NoLater

\* The list object the name key_factors is bound to by line 76: a new one.
new_list_shared(heap) == 1

new_list(heap) == Len(heap) + 1

\* What evaluate assigns in its argument: nothing.
state_written_pruned(s) ==
    [s EXCEPT !.player1_units = SelectSeq(@, is_alive),
              !.player2_units = SelectSeq(@, is_alive)]

state_written(s) == s

Started == Len(lists) + Cardinality({t \in Threads : frames[t].pc = "line76"})

\* evaluator.evaluate(game) is entered on thread t.
Call(t) ==
    /\ frames[t].pc \in {"idle", "done"}
    /\ Started < MaxCalls
    /\ \E e \in Evaluators, g \in DOMAIN games :
           frames' = [frames EXCEPT ![t] =
                          [IdleFrame EXCEPT !.pc = "line76", !.self = e,
                                            !.arg = g]]
    /\ UNCHANGED <<games, lists, state, evaluation, rosterVars, objVars, laterVars>>

\* key_factors = []
Line76(t) ==
    /\ frames[t].pc = "line76"
    /\ lists' = [i \in 1..(Len(lists) + 1) |->
                    IF i <= Len(lists) THEN lists[i] ELSE <<>>]
    /\ frames' = [frames EXCEPT ![t].pc = "line79",
                                ![t].key_factors = new_list(lists)]
    /\ games' = [games EXCEPT ![frames[t].arg] = state_written(@)]
    /\ UNCHANGED <<state, evaluation, rosterVars, objVars, laterVars>>

\* Lines 79-93: the material score and its factor.
Line79(t) ==
    /\ frames[t].pc = "line79"
    /\ LET s == games[frames[t].arg]
           ms == material_score(living_points(s.player1_units),
                                living_points(s.player2_units))
           kf == frames[t].key_factors
       IN  /\ frames' = [frames EXCEPT ![t].pc = "line96",
                                       ![t].material_score = ms]
           /\ lists' = [lists EXCEPT ![kf] = @ \o material_factor(ms)]
    /\ games' = [games EXCEPT ![frames[t].arg] = state_written(@)]
    /\ UNCHANGED <<state, evaluation, rosterVars, objVars, laterVars>>

\* Lines 96-102: the VP score and its factor.
Line96(t) ==
    /\ frames[t].pc = "line96"
    /\ LET s == games[frames[t].arg]
           kf == frames[t].key_factors
       IN  /\ frames' = [frames EXCEPT
                            ![t].pc = "line105",
                            ![t].vp_score =
                                vp_score(s.player1_vp, s.player2_vp)]
           /\ lists' = [lists EXCEPT
                           ![kf] = @ \o vp_factor(s.player1_vp - s.player2_vp)]
    /\ games' = [games EXCEPT ![frames[t].arg] = state_written(@)]
    /\ UNCHANGED <<state, evaluation, rosterVars, objVars, laterVars>>

\* Lines 105-122: the advantage, the win probability, the confidence and
\* the result, which takes a copy of the list.
Line105(t) ==
    /\ frames[t].pc = "line105"
    /\ LET f == frames[t]
           pa == player_advantage(f.material_score, f.vp_score)
       IN  frames' = [frames EXCEPT
                         ![t].pc = "done",
                         ![t].result =
                             PositionEvaluation(
                                 [raised |-> "none",
                                  player_advantage |-> pa,
                                  win_probability |->
                                      Logistic(RMul(pa, Rat(3, 1))),
                                  key_factors |-> lists[f.key_factors],
                                  confidence |->
                                      confidence(games[f.arg].turn_number),
                                  material_score |-> f.material_score,
                                  position_score |-> Zero,
                                  tempo_score |-> Zero,
                                  vp_score |-> f.vp_score])]
    /\ games' = [games EXCEPT ![frames[t].arg] = state_written(@)]
    /\ UNCHANGED <<lists, state, evaluation, rosterVars, objVars, laterVars>>

NextCalls ==
    \E t \in Threads :
        Call(t) \/ Line76(t) \/ Line79(t) \/ Line96(t) \/ Line105(t)

SpecCalls == InitCalls /\ [][NextCalls]_vars

(***************************************************************************)
(* models.py: GameState over rosters of units with ids.                    *)
(***************************************************************************)
\* Units in the two rosters together.
MaxRoster == 2

\* Unit.id values (a UUID in the source); LastId is carried by no unit.
LastId == 3
UnitIds == 1..(LastId - 1)

IdUnits ==
    [id : UnitIds, status : UnitStatus, wounds_current : WoundsVals]

IdRosters(n) == [1..n -> IdUnits]

\* GameState(player1_units=p1, player2_units=p2): pydantic checks the
\* field types; the class has no validator, so every pair of rosters is
\* accepted.
GameState(p1, p2) ==
    [raised |-> "none", player1_units |-> p1, player2_units |-> p2]

all_units_p2_first(g) == g.player2_units \o g.player1_units

all_units(g) == g.player1_units \o g.player2_units

active_units(g) == SelectSeq(all_units(g), is_alive)

RECURSIVE scan_last(_, _)
scan_last(units, unit_id) ==
    IF units = <<>> THEN <<>>
    ELSE IF units[Len(units)].id = unit_id THEN <<units[Len(units)]>>
    ELSE scan_last(SubSeq(units, 1, Len(units) - 1), unit_id)

\* for unit in units: if unit.id == unit_id: return unit; return None.
\* The Optional[Unit] is <<unit>> or, for None, << >>.
RECURSIVE scan(_, _)
scan(units, unit_id) ==
    IF units = <<>> THEN <<>>
    ELSE IF Head(units).id = unit_id THEN <<Head(units)>>
    ELSE scan(Tail(units), unit_id)

get_unit(g, unit_id) == scan(all_units(g), unit_id)

InitRoster ==
    /\ NoRoster
    /\ state = <<>> /\ evaluation = NoEvaluation
    /\ NoCalls /\ NoObj /\ NoLater

\* game = GameState(player1_units=p1, player2_units=p2)
Construct ==
    /\ game = NoGame
    /\ \E n1 \in 0..MaxRoster :
         \E n2 \in 0..(MaxRoster - n1) :
           \E p1 \in IdRosters(n1), p2 \in IdRosters(n2) :
               game' = GameState(p1, p2)
    /\ UNCHANGED <<lookup, listing, state, evaluation, callVars, objVars, laterVars>>

\* found = game.get_unit(unit_id), on the game as constructed.
GetUnit ==
    /\ game # NoGame /\ game.raised = "none"
    /\ lookup = <<>>
    /\ \E unit_id \in 1..LastId :
           lookup' = <<[unit_id |-> unit_id, found |-> get_unit(game, unit_id)]>>
    /\ UNCHANGED <<game, listing, state, evaluation, callVars, objVars, laterVars>>

\* units = game.active_units, on the game as constructed.
ActiveUnits ==
    /\ game # NoGame /\ game.raised = "none"
    /\ listing = <<>>
    /\ listing' = <<active_units(game)>>
    /\ UNCHANGED <<game, lookup, state, evaluation, callVars, objVars, laterVars>>

NextRoster == Construct \/ GetUnit \/ ActiveUnits

SpecRoster == InitRoster /\ [][NextRoster]_vars

(***************************************************************************)
(* evaluation.py: PositionEvaluation objects built directly.               *)
(***************************************************************************)
ScoreVals ==
    {Rat(-3, 2), Rat(-1, 1), Rat(-1, 2), Rat(-3, 10), Rat(-1, 5), Rat(-1, 10),
     Zero, Rat(1, 10), Rat(1, 5), Rat(3, 10), Rat(1, 2), One, Rat(3, 2)}
ProbVals == {Rat(-1, 10), Zero, Rat(1, 8), Rat(1, 2), One, Rat(11, 10)}
FactorVals == {<<>>, <<"Material advantage">>}

\* f"{x:.0%}" on an exact value: 100 * x rounded to an integer, halves to
\* the even one.
Percent(x) ==
    LET n == 100 * x.n
        q == n \div x.d
        r == n % x.d
    IN  IF 2 * r < x.d THEN q
        ELSE IF 2 * r > x.d THEN q + 1
        ELSE IF q % 2 = 0 THEN q ELSE q + 1

explain_inclusive(e) ==
    [advantage |->
         IF RLe(Rat(3, 10), e.player_advantage)
         THEN "Player 1 has a significant advantage"
         ELSE IF RLe(Rat(1, 10), e.player_advantage)
         THEN "Player 1 has a slight advantage"
         ELSE IF RLe(e.player_advantage, Rat(-3, 10))
         THEN "Player 2 has a significant advantage"
         ELSE IF RLe(e.player_advantage, Rat(-1, 10))
         THEN "Player 2 has a slight advantage"
         ELSE "The position is roughly equal",
     factors |-> IF e.key_factors # <<>> THEN e.key_factors
                 ELSE <<"No specific factors">>,
     percent |-> Percent(e.win_probability)]

\* PositionEvaluation.explain: the three parts of the returned text.
explain(e) ==
    [advantage |->
         IF RLt(Rat(3, 10), e.player_advantage)
         THEN "Player 1 has a significant advantage"
         ELSE IF RLt(Rat(1, 10), e.player_advantage)
         THEN "Player 1 has a slight advantage"
         ELSE IF RLt(e.player_advantage, Rat(-3, 10))
         THEN "Player 2 has a significant advantage"
         ELSE IF RLt(e.player_advantage, Rat(-1, 10))
         THEN "Player 2 has a slight advantage"
         ELSE "The position is roughly equal",
     factors |-> IF e.key_factors # <<>> THEN e.key_factors
                 ELSE <<"No specific factors">>,
     percent |-> Percent(e.win_probability)]

InitObject ==
    /\ NoObj
    /\ state = <<>> /\ evaluation = NoEvaluation
    /\ NoCalls /\ NoRoster /\ NoLater

\* obj = PositionEvaluation(player_advantage=..., win_probability=...,
\* key_factors=..., confidence=...); the sub-scores keep their default 0.0.
ConstructObject ==
    /\ obj = NoObject
    /\ \E pa \in ScoreVals, wp \in ProbVals, c \in ProbVals,
          kf \in FactorVals :
           obj' = PositionEvaluation(
                      [raised |-> "none", player_advantage |-> pa,
                       win_probability |-> wp, key_factors |-> kf,
                       confidence |-> c, material_score |-> Zero,
                       position_score |-> Zero, tempo_score |-> Zero,
                       vp_score |-> Zero])
    /\ UNCHANGED <<explained, state, evaluation, callVars, rosterVars, laterVars>>

\* text = obj.explain()
Explain ==
    /\ obj # NoObject /\ obj.raised = "none"
    /\ explained' = <<explain(obj)>>
    /\ UNCHANGED <<obj, state, evaluation, callVars, rosterVars, laterVars>>

\* obj.player_advantage = v, obj.win_probability = v or obj.confidence = v:
\* the class sets neither frozen nor validate_assignment (lines 18-38), so
\* the value is stored as given.
SetAttr ==
    /\ obj # NoObject /\ obj.raised = "none"
    /\ \/ \E v \in ScoreVals : obj' = [obj EXCEPT !.player_advantage = v]
       \/ \E v \in ProbVals : obj' = [obj EXCEPT !.win_probability = v]
       \/ \E v \in ProbVals : obj' = [obj EXCEPT !.confidence = v]
    /\ UNCHANGED <<explained, state, evaluation, callVars, rosterVars, laterVars>>

\* obj.key_factors.append(text): key_factors is a plain list.
AppendFactor ==
    /\ obj # NoObject /\ obj.raised = "none"
    /\ Len(obj.key_factors) < 2
    /\ obj' = [obj EXCEPT !.key_factors = Append(@, "Material advantage")]
    /\ UNCHANGED <<explained, state, evaluation, callVars, rosterVars, laterVars>>

NextObject == ConstructObject \/ Explain \/ SetAttr \/ AppendFactor

SpecObject == InitObject /\ [][NextObject]_vars

(***************************************************************************)
(* database.py: OpeningBookDB over the table historical_games.             *)
(*                                                                         *)
(* The SQL of the source is read by its documented meaning: INSERT OR      *)
(* REPLACE replaces the row that has the same primary key by the row being *)
(* inserted, and a column the statement does not name takes its DEFAULT.   *)
(***************************************************************************)
\* index_game calls that store a row in one run.
MaxClock == 3

GameIds == {"game-001", "game-002"}
Matchups == {<<"Space Marines", "Orks">>, <<"Orks", "Space Marines">>}
WinnerVals == 0..3
LimitVals == {0, 1, 10}

\* The list hashes, the victory points and the turn count of a call.
Details ==
    {[player1_list_hash |-> "sm-hash-123", player2_list_hash |-> "ork-hash-456",
      player1_vp |-> 85, player2_vp |-> 70, turn_count |-> 5],
     [player1_list_hash |-> "sm-hash-789", player2_list_hash |-> "ork-hash-456",
      player1_vp |-> 40, player2_vp |-> 60, turn_count |-> 3]}

\* The arguments of index_game, lines 215-226: every call with a winner of
\* 1 or 2, and calls with another winner.
IndexCall(id, m, d, w) ==
    [game_id |-> id, player1_faction |-> m[1], player2_faction |-> m[2],
     player1_list_hash |-> d.player1_list_hash,
     player2_list_hash |-> d.player2_list_hash,
     winner |-> w, player1_vp |-> d.player1_vp,
     player2_vp |-> d.player2_vp, turn_count |-> d.turn_count]

IndexArgs ==
    {IndexCall(id, m, d, w) :
        id \in GameIds, m \in Matchups, d \in Details, w \in {1, 2}}
    \cup {IndexCall(id, m, CHOOSE d \in Details : d.turn_count = 5, w) :
              id \in GameIds, m \in Matchups, w \in WinnerVals \ {1, 2}}

\* The arguments of a HistoricalGameResult built directly.
ResultArgs ==
    {a \in IndexArgs : a.game_id = "game-001" /\ a.turn_count = 5}

\* games, wins and losses of a FactionStatistics built directly.
StatsArgs == {<<0, 0, 0>>, <<1, 1, 0>>, <<2, 1, 1>>, <<2, 0, 2>>}

\* The row the INSERT of lines 231-240 makes of the arguments: game_date and
\* source are not named and take their defaults (lines 117-118).
new_row(a, timestamp) ==
    [id |-> a.game_id, player1_faction |-> a.player1_faction,
     player2_faction |-> a.player2_faction,
     player1_list_hash |-> a.player1_list_hash,
     player2_list_hash |-> a.player2_list_hash,
     winner |-> a.winner, player1_vp |-> a.player1_vp,
     player2_vp |-> a.player2_vp, turn_count |-> a.turn_count,
     game_date |-> timestamp, source |-> "user"]

HistoricalGameResult_upper_only(row) ==
    [raised |-> IF row.winner <= 2 THEN "none" ELSE "ValidationError",
     id |-> row.id, player1_faction |-> row.player1_faction,
     player2_faction |-> row.player2_faction,
     player1_list_hash |-> row.player1_list_hash,
     player2_list_hash |-> row.player2_list_hash,
     winner |-> row.winner, player1_vp |-> row.player1_vp,
     player2_vp |-> row.player2_vp, turn_count |-> row.turn_count,
     game_date |-> row.game_date, source |-> row.source,
     player1_won |-> row.winner = 1,
     vp_differential |-> row.player1_vp - row.player2_vp]

\* HistoricalGameResult(**row): Field(ge=1, le=2) of line 39 and the
\* validator of lines 46-52; the computed fields of lines 54-64.
HistoricalGameResult(row) ==
    LET valid == /\ row.winner >= 1 /\ row.winner <= 2
                 /\ row.winner \in {1, 2}
    IN  [raised |-> IF valid THEN "none" ELSE "ValidationError",
         id |-> row.id, player1_faction |-> row.player1_faction,
         player2_faction |-> row.player2_faction,
         player1_list_hash |-> row.player1_list_hash,
         player2_list_hash |-> row.player2_list_hash,
         winner |-> row.winner, player1_vp |-> row.player1_vp,
         player2_vp |-> row.player2_vp, turn_count |-> row.turn_count,
         game_date |-> row.game_date, source |-> row.source,
         player1_won |-> row.winner = 1,
         vp_differential |-> row.player1_vp - row.player2_vp]

win_rate_unguarded(n_games, n_wins) == TrueDiv(n_wins, n_games)

\* FactionStatistics.win_rate, lines 82-88.
win_rate(n_games, n_wins) ==
    IF n_games = 0 THEN Zero ELSE TrueDiv(n_wins, n_games)

\* FactionStatistics(**row): the class has no constraint (lines 67-80).
FactionStatistics(row) ==
    [raised |-> "none", faction |-> row.faction, opponent |-> row.opponent,
     games |-> row.games, wins |-> row.wins, losses |-> row.losses,
     avg_vp_scored |-> row.avg_vp_scored,
     avg_vp_conceded |-> row.avg_vp_conceded,
     win_rate |-> win_rate(row.games, row.wins)]

no_connection_skipped(c) == FALSE

\* `if not self._conn`: None is false, a connection object is true.
no_connection(c) == c = "None"

\* What a statement executed on self._conn raises before it runs.
execute_raises(c) ==
    IF c = "None" THEN "AttributeError"
    ELSE IF c = "closed" THEN "ConnectionException"
    ELSE "none"

\* CHECK (winner IN (1, 2)), line 109.
check_winner(row) == row.winner \in {1, 2}

insert_append(table, row) == table \cup {row}

\* INSERT OR REPLACE on the primary key id (line 98).
insert_or_replace(table, row) == {r \in table : r.id # row.id} \cup {row}

\* index_game, lines 228-240: what it raises and the table it leaves.
index_game(c, table, timestamp, a) ==
    IF no_connection(c)
    THEN [raised |-> "RuntimeError", table |-> table]
    ELSE IF execute_raises(c) # "none"
    THEN [raised |-> execute_raises(c), table |-> table]
    ELSE IF ~check_winner(new_row(a, timestamp))
    THEN [raised |-> "ConstraintException", table |-> table]
    ELSE [raised |-> "none",
          table |-> insert_or_replace(table, new_row(a, timestamp))]

in_matchup_either_side(r, faction, opponent) ==
    \/ r.player1_faction = faction /\ r.player2_faction = opponent
    \/ r.player1_faction = opponent /\ r.player2_faction = faction

\* WHERE player1_faction = ? AND player2_faction = ?, line 258.
in_matchup(r, faction, opponent) ==
    r.player1_faction = faction /\ r.player2_faction = opponent

\* ORDER BY game_date DESC, line 259.
RECURSIVE order_by_game_date_desc(_)
order_by_game_date_desc(rows) ==
    IF rows = {} THEN <<>>
    ELSE LET first == CHOOSE r \in rows :
                          \A q \in rows : q.game_date <= r.game_date
         IN  <<first>> \o order_by_game_date_desc(rows \ {first})

\* LIMIT ?, line 260.
limit_rows(rows, limit) ==
    SubSeq(rows, 1, IF limit < Len(rows) THEN limit ELSE Len(rows))

\* query_matchup, lines 253-267.
query_matchup(c, table, faction, opponent, limit) ==
    IF no_connection(c)
    THEN [raised |-> "RuntimeError", result |-> <<>>]
    ELSE IF execute_raises(c) # "none"
    THEN [raised |-> execute_raises(c), result |-> <<>>]
    ELSE LET rows == limit_rows(
                         order_by_game_date_desc(
                             {r \in table : in_matchup(r, faction, opponent)}),
                         limit)
             models == [i \in 1..Len(rows) |-> HistoricalGameResult(rows[i])]
         IN  IF \E i \in 1..Len(rows) : models[i].raised # "none"
             THEN [raised |-> "ValidationError", result |-> <<>>]
             ELSE [raised |-> "none", result |-> models]

RECURSIVE vp_total(_, _)
vp_total(rows, player) ==
    IF rows = {} THEN 0
    ELSE LET r == CHOOSE x \in rows : TRUE
         IN  (IF player = 1 THEN r.player1_vp ELSE r.player2_vp)
             + vp_total(rows \ {r}, player)

\* The view faction_stats, lines 154-164: one row for every faction pair
\* that has a game.
faction_stats(table) ==
    {LET rows == {r \in table : r.player1_faction = g[1]
                                /\ r.player2_faction = g[2]}
     IN  [faction |-> g[1], opponent |-> g[2],
          games |-> Cardinality(rows),
          wins |-> Cardinality({r \in rows : r.winner = 1}),
          losses |-> Cardinality({r \in rows : r.winner = 2}),
          avg_vp_scored |-> Rat(vp_total(rows, 1), Cardinality(rows)),
          avg_vp_conceded |-> Rat(vp_total(rows, 2), Cardinality(rows))] :
        g \in {<<r.player1_faction, r.player2_faction>> : r \in table}}

\* get_matchup_stats, lines 279-291; the Optional is << >> for None.
get_matchup_stats(c, table, faction, opponent) ==
    IF no_connection(c)
    THEN [raised |-> "RuntimeError", result |-> <<>>]
    ELSE IF execute_raises(c) # "none"
    THEN [raised |-> execute_raises(c), result |-> <<>>]
    ELSE LET found == {v \in faction_stats(table) :
                          v.faction = faction /\ v.opponent = opponent}
         IN  [raised |-> "none",
              result |-> IF found = {} THEN <<>>
                         ELSE <<FactionStatistics(CHOOSE v \in found : TRUE)>>]

\* db = OpeningBookDB(db_path): _conn is None (line 191); the database file
\* is new.  HAS_DUCKDB is set when the module is imported (lines 16-21).
InitDB ==
    /\ HAS_DUCKDB \in BOOLEAN
    /\ conn = "None"
    /\ historical_games = {}
    /\ now = 0
    /\ reply = NoReply
    /\ state = <<>> /\ evaluation = NoEvaluation /\ mirrored = NoEvaluation
    /\ NoCalls /\ NoRoster /\ NoObj /\ NoEnc

restVars == <<state, evaluation, callVars, rosterVars, objVars, mirrored,
              encVars>>

\* await db.connect(): the schema is created IF NOT EXISTS, so the rows of
\* the file stay.
Connect ==
    /\ IF HAS_DUCKDB
       THEN /\ conn' = "open"
            /\ reply' = [op |-> "connect", args |-> <<>>, raised |-> "none",
                         result |-> <<>>]
       ELSE /\ conn' = conn
            /\ reply' = [op |-> "connect", args |-> <<>>,
                         raised |-> "ImportError", result |-> <<>>]
    /\ UNCHANGED <<HAS_DUCKDB, historical_games, now, restVars>>

\* await db.close()
Close ==
    /\ conn' = "None"
    /\ reply' = [op |-> "close", args |-> <<>>, raised |-> "none",
                 result |-> <<>>]
    /\ UNCHANGED <<HAS_DUCKDB, historical_games, now, restVars>>

\* await db.index_game(**a)
IndexGame ==
    /\ now < MaxClock
    /\ \E a \in IndexArgs :
         LET out == index_game(conn, historical_games, now + 1, a)
         IN  /\ historical_games' = out.table
             /\ reply' = [op |-> "index_game", args |-> a,
                          raised |-> out.raised, result |-> <<>>]
             /\ now' = IF out.raised = "none" THEN now + 1 ELSE now
    /\ UNCHANGED <<HAS_DUCKDB, conn, restVars>>

\* results = await db.query_matchup(faction, opponent, limit)
QueryMatchup ==
    /\ \E m \in Matchups, limit \in LimitVals :
         LET out == query_matchup(conn, historical_games, m[1], m[2], limit)
         IN  reply' = [op |-> "query_matchup",
                       args |-> [player_faction |-> m[1],
                                 opponent_faction |-> m[2], limit |-> limit],
                       raised |-> out.raised, result |-> out.result]
    /\ UNCHANGED <<HAS_DUCKDB, conn, historical_games, now, restVars>>

\* stats = await db.get_matchup_stats(faction, opponent)
GetMatchupStats ==
    /\ \E m \in Matchups :
         LET out == get_matchup_stats(conn, historical_games, m[1], m[2])
         IN  reply' = [op |-> "get_matchup_stats",
                       args |-> [player_faction |-> m[1],
                                 opponent_faction |-> m[2]],
                       raised |-> out.raised, result |-> out.result]
    /\ UNCHANGED <<HAS_DUCKDB, conn, historical_games, now, restVars>>

\* db.__enter__(), lines 293-294.
Enter ==
    /\ reply' = [op |-> "__enter__", args |-> <<>>, raised |-> "none",
                 result |-> <<"self">>]
    /\ UNCHANGED <<HAS_DUCKDB, conn, historical_games, now, restVars>>

\* db.__exit__(), lines 296-298: the connection is closed and _conn keeps
\* the closed connection object.
Exit ==
    /\ conn' = IF conn = "None" THEN "None" ELSE "closed"
    /\ reply' = [op |-> "__exit__", args |-> <<>>, raised |-> "none",
                 result |-> <<>>]
    /\ UNCHANGED <<HAS_DUCKDB, historical_games, now, restVars>>

\* HistoricalGameResult(id=..., ..., winner=w) built directly.
ConstructResult ==
    /\ \E a \in ResultArgs :
         LET made == HistoricalGameResult(
                         [new_row(a, 0) EXCEPT !.game_date = "None"])
         IN  reply' = [op |-> "HistoricalGameResult", args |-> a,
                       raised |-> made.raised,
                       result |-> IF made.raised = "none" THEN <<made>>
                                  ELSE <<>>]
    /\ UNCHANGED <<HAS_DUCKDB, conn, historical_games, now, restVars>>

\* FactionStatistics(faction=..., opponent=..., games=g, wins=w, losses=l)
\* built directly; the averages keep their default 0.0.
ConstructStatistics ==
    /\ \E n \in StatsArgs :
         LET a == [faction |-> "Space Marines", opponent |-> "Orks",
                   games |-> n[1], wins |-> n[2], losses |-> n[3],
                   avg_vp_scored |-> Zero, avg_vp_conceded |-> Zero]
         IN  reply' = [op |-> "FactionStatistics", args |-> a,
                       raised |-> "none", result |-> <<FactionStatistics(a)>>]
    /\ UNCHANGED <<HAS_DUCKDB, conn, historical_games, now, restVars>>

NextDB ==
    \/ Connect \/ Close \/ IndexGame \/ QueryMatchup \/ GetMatchupStats
    \/ Enter \/ Exit \/ ConstructResult \/ ConstructStatistics

SpecDB == InitDB /\ [][NextDB]_vars

(***************************************************************************)
(* encoding.py: GameStateEncoder.                                          *)
(***************************************************************************)
\* The largest max_units of an encoder, and the units of a state, both
\* rosters together.
MaxCap == 2
MaxEncoded == 2

UNIT_FEATURE_DIM == 12
BOARD_SIZE == 60

\* list(Phase) and list(UnitStatus): the members in definition order.
PhaseList ==
    <<"COMMAND", "MOVEMENT", "SHOOTING", "CHARGE", "FIGHT", "MORALE">>
UnitStatusList == <<"ACTIVE", "DESTROYED", "FLED", "IN_RESERVE">>

\* list.index: the position of the member, from 0.
index(list, member) == (CHOOSE i \in DOMAIN list : list[i] = member) - 1

\* float(b) of a bool.
float(b) == IF b THEN One ELSE Zero

\* np.clip(x, lo, hi)
clip(x, lo, hi) == RMin(RMax(x, lo), hi)

max(a, b) == IF a > b THEN a ELSE b

\* Units as the encoder reads them: inside the board, whole and unused;
\* outside the board, destroyed, above the points cap, every flag set; with
\* more wounds and models than wounds_max and models_max; fled, with
\* wounds_max and models_max 0.
EncUnit(x, y, wc, wm, mc, mm, points, status, moved, shot, charged, fought) ==
    [position_x |-> x, position_y |-> y, wounds_current |-> wc,
     wounds_max |-> wm, models_current |-> mc, models_max |-> mm,
     points_cost |-> points, status |-> status, has_moved |-> moved,
     has_shot |-> shot, has_charged |-> charged, has_fought |-> fought]

EncUnits ==
    {EncUnit(24, 18, 10, 12, 5, 5, 200, "ACTIVE", FALSE, FALSE, FALSE, FALSE),
     EncUnit(-6, 72, 0, 12, 0, 5, 600, "DESTROYED", TRUE, TRUE, TRUE, FALSE),
     EncUnit(60, 0, 3, 2, 5, 5, 100, "ACTIVE", TRUE, FALSE, FALSE, TRUE),
     EncUnit(30, 30, 1, 1, 6, 5, 100, "IN_RESERVE", FALSE, FALSE, FALSE, FALSE),
     EncUnit(0, 60, 0, 0, 0, 0, 0, "FLED", FALSE, TRUE, FALSE, FALSE)}

EncRosters(n) == [1..n -> EncUnits]

EncTurns == {1, 2, 7}
EncPhases == {"COMMAND", "MOVEMENT", "MORALE"}
EncPlayers == {1, 2}
EncVPs == {<<0, 0>>, <<15, 10>>, <<30, 120>>}

\* The roster lengths of the two players.
EncShapes ==
    {nn \in (0..MaxEncoded) \X (0..MaxEncoded) : nn[1] + nn[2] <= MaxEncoded}

\* The GameStates given to encode, by the lengths of their rosters.
EncStates(nn) ==
    {[turn_number |-> t, current_phase |-> ph, active_player |-> ap,
      player1_units |-> p1, player2_units |-> p2,
      player1_vp |-> vp[1], player2_vp |-> vp[2]] :
        t \in EncTurns, ph \in EncPhases, ap \in EncPlayers,
        p1 \in EncRosters(nn[1]), p2 \in EncRosters(nn[2]),
        vp \in EncVPs}

\* _encode_global, lines 85-113.
_encode_global(self, s) ==
    LET vp_diff == s.player1_vp - s.player2_vp
        p1_active == Len(SelectSeq(s.player1_units, is_alive))
        p2_active == Len(SelectSeq(s.player2_units, is_alive))
    IN  <<RMin(Rat(s.turn_number, 5), One),
          Rat(index(PhaseList, s.current_phase), 5),
          Rat(s.active_player - 1, 1),
          RMin(Rat(s.player1_vp, 100), One),
          RMin(Rat(s.player2_vp, 100), One),
          RAdd(Rat(1, 2), clip(Rat(vp_diff, 100), Rat(-1, 2), Rat(1, 2))),
          RMin(TrueDiv(p1_active, self.max_units), One),
          RMin(TrueDiv(p2_active, self.max_units), One)>>

\* _encode_unit, lines 127-156.
_encode_unit(self, unit) ==
    LET status_idx == index(UnitStatusList, unit.status)
    IN  <<clip(Rat(unit.position_x, self.board_size), Zero, One),
          clip(Rat(unit.position_y, self.board_size), Zero, One),
          TrueDiv(unit.wounds_current, max(unit.wounds_max, 1)),
          TrueDiv(unit.models_current, max(unit.models_max, 1)),
          RMin(Rat(unit.points_cost, 500), One),
          float(status_idx = 0),
          float(status_idx = 1),
          float(status_idx = 2),
          float(status_idx = 3),
          float(unit.has_moved),
          float(unit.has_shot),
          float(unit.has_charged \/ unit.has_fought)>>

\* np.zeros(UNIT_FEATURE_DIM)
zeros == [k \in 1..UNIT_FEATURE_DIM |-> Zero]

\* _encode_units, lines 115-125: rows 1..max_units, the rows of
\* units[:max_units] filled in.
_encode_units(self, units) ==
    [i \in 1..self.max_units |->
        IF i <= Len(units) THEN _encode_unit(self, units[i]) ELSE zeros]

\* _create_mask, lines 158-162.
_create_mask(self, units) ==
    [i \in 1..self.max_units |->
        i <= (IF Len(units) < self.max_units THEN Len(units)
              ELSE self.max_units)]

\* encode, lines 68-83.
encode(self, s) ==
    [global_features |-> _encode_global(self, s),
     player1_units |-> _encode_units(self, s.player1_units),
     player2_units |-> _encode_units(self, s.player2_units),
     unit_mask_p1 |-> _create_mask(self, s.player1_units),
     unit_mask_p2 |-> _create_mask(self, s.player2_units)]

\* encoder = GameStateEncoder(max_units=cap), lines 54-66, and the state
\* it is given.
InitEncode ==
    /\ encoder \in [max_units : 1..MaxCap, board_size : {BOARD_SIZE}]
    /\ \E nn \in EncShapes : full_state \in EncStates(nn)
    /\ encoded = <<>>
    /\ state = <<>> /\ evaluation = NoEvaluation /\ mirrored = NoEvaluation
    /\ NoCalls /\ NoRoster /\ NoObj /\ NoDB

\* encoded = encoder.encode(full_state)
Encode ==
    /\ encoded = <<>>
    /\ encoded' = <<encode(encoder, full_state)>>
    /\ UNCHANGED <<encoder, full_state, state, evaluation, mirrored,
                   callVars, rosterVars, objVars, dbVars>>

NextEncode == Encode

SpecEncode == InitEncode /\ [][NextEncode]_vars

(***************************************************************************)
(* Properties.                                                             *)
(***************************************************************************)
\* evaluate was called.
Called == evaluation # NoEvaluation

\* evaluate reached the constructor call of line 115, so the values it
\* computed on lines 76-113 exist.
Computed == evaluation.raised \in {"none", "ValidationError"}

\* The points of the units of a roster with status ACTIVE and wounds left.
RECURSIVE LivingSum(_, _)
LivingSum(units, i) ==
    IF i = 0 THEN 0
    ELSE LivingSum(units, i - 1)
         + (IF units[i].status = "ACTIVE" /\ units[i].wounds_current > 0
            THEN units[i].points_cost ELSE 0)

P1Points == LivingSum(state.player1_units, Len(state.player1_units))
P2Points == LivingSum(state.player2_units, Len(state.player2_units))
VPDiff == state.player1_vp - state.player2_vp
VPSum == state.player1_vp + state.player2_vp

Range(f) == {f[i] : i \in DOMAIN f}
MaterialFactors == {"Player 1 has more material", "Player 2 has more material"}
VPFactors == {"Player 1 leads on VP", "Player 2 leads on VP"}

\* 0.4 * material_score + 0.6 * vp_score of the sub-scores in the result.
Weighted == RAdd(RMul(Rat(2, 5), evaluation.material_score),
                 RMul(Rat(3, 5), evaluation.vp_score))

\* C1: the player_advantage evaluate computes lies in [-1, 1] for every
\* game state, whatever the rosters, points and VP.
C1_AdvantageInRange ==
    Computed => /\ RLe(Rat(-1, 1), evaluation.player_advantage)
                /\ RLe(evaluation.player_advantage, Rat(1, 1))

\* C1 witness: an evaluation whose weighted sum is above 1 and was clamped.
C1_Clamped ==
    Computed /\ RLt(Rat(1, 1), Weighted) /\ evaluation.player_advantage = One

OneLiving(units, points) ==
    /\ Len(units) = 1
    /\ units[1].status = "ACTIVE" /\ units[1].wounds_current > 0
    /\ units[1].points_cost = points

MaterialScenario ==
    /\ OneLiving(state.player1_units, 200)
    /\ OneLiving(state.player2_units, 50)
    /\ state.player1_vp = 0 /\ state.player2_vp = 0

VPScenario ==
    /\ state.player1_units = <<>> /\ state.player2_units = <<>>
    /\ state.player1_vp = 10 /\ state.player2_vp = 0

\* C2: player_advantage is 0.4 * material_score + 0.6 * vp_score of the same
\* result, clamped to [-1, 1]; 200 living points against 50 with VP 0/0
\* give 0.24, and VP 10/0 without units gives 0.6.
C2_WeightedSum ==
    Computed =>
        /\ evaluation.player_advantage =
               (IF RLt(Weighted, Rat(-1, 1)) THEN Rat(-1, 1)
                ELSE IF RLt(Rat(1, 1), Weighted) THEN Rat(1, 1)
                ELSE Weighted)
        /\ MaterialScenario => evaluation.player_advantage = Rat(24, 100)
        /\ VPScenario => evaluation.player_advantage = Rat(6, 10)

\* C2 witness: the 200 against 50 scenario was evaluated.
C2_ScenarioEvaluated == Computed /\ MaterialScenario

\* C3 as stated: the material_score evaluate returns is 0 when the living
\* points of the two players sum to 0 and (p1 - p2) / (p1 + p2) otherwise.
C3_MaterialZeroOnlyAtZero ==
    evaluation.raised = "none" =>
        evaluation.material_score =
            (IF P1Points + P2Points = 0 THEN Zero
             ELSE Rat(P1Points - P2Points, P1Points + P2Points))

\* C3 as amended: material_score, computed from the units with status
\* ACTIVE and wounds left only, is 0 when the living points sum to 0 or
\* less and (p1 - p2) / (p1 + p2) otherwise.
C3_MaterialScore ==
    Computed =>
        evaluation.material_score =
            (IF P1Points + P2Points <= 0 THEN Zero
             ELSE Rat(P1Points - P2Points, P1Points + P2Points))

\* C3 witness: an evaluated state whose living points sum below 0 beside a
\* unit that is not alive.
C3_NegativeTotal ==
    /\ Computed
    /\ P1Points + P2Points < 0
    /\ \E u \in Range(state.player1_units \o state.player2_units) :
           u.status # "ACTIVE" \/ u.wounds_current = 0

\* C4: vp_score is (player1_vp - player2_vp) / max(player1_vp + player2_vp,
\* 1), and the division never fails.
C4_VPScore ==
    Called =>
        /\ evaluation.raised # "ZeroDivisionError"
        /\ evaluation.vp_score =
               Rat(VPDiff, IF VPSum >= 1 THEN VPSum ELSE 1)

\* C4 witness: an evaluated state whose VP sum is below 1 with unequal VP.
C4_FloorUsed == Called /\ VPSum < 1 /\ VPDiff # 0

\* C5: with living points summing to 0 and VP 0/0 the three scores are 0
\* and no division by zero happens; the empty state at turn 1 also gets
\* confidence 0.4 and no key factor.
C5_ZeroCase ==
    /\ (Called /\ P1Points + P2Points = 0
               /\ state.player1_vp = 0 /\ state.player2_vp = 0) =>
           /\ evaluation.raised # "ZeroDivisionError"
           /\ evaluation.material_score = Zero
           /\ evaluation.vp_score = Zero
           /\ evaluation.player_advantage = Zero
    /\ (Called /\ state.player1_units = <<>> /\ state.player2_units = <<>>
               /\ state.player1_vp = 0 /\ state.player2_vp = 0
               /\ state.turn_number = 1) =>
           /\ evaluation.raised = "none"
           /\ evaluation.confidence = Rat(4, 10)
           /\ evaluation.key_factors = <<>>

\* C5 witness: an evaluated state with units on the battlefield, none of
\* which brings living points, and VP 0/0.
C5_DeadOrFreeRosters ==
    /\ Called
    /\ state.player1_units # <<>> /\ state.player2_units # <<>>
    /\ P1Points = 0 /\ P2Points = 0
    /\ state.player1_vp = 0 /\ state.player2_vp = 0

\* C6: a material factor is among the key factors exactly when
\* |material_score| > 0.1, naming player 1 for a positive score and player
\* 2 for a negative one.
C6_MaterialFactor ==
    Computed =>
        /\ "Player 1 has more material" \in Range(evaluation.key_factors)
               <=> RLt(Rat(1, 10), evaluation.material_score)
        /\ "Player 2 has more material" \in Range(evaluation.key_factors)
               <=> RLt(evaluation.material_score, Rat(-1, 10))

\* C6 witness: material_score is exactly 0.1 and no material factor given.
C6_AtThreshold ==
    /\ Computed
    /\ evaluation.material_score = Rat(1, 10)
    /\ Range(evaluation.key_factors) \cap MaterialFactors = {}

\* C7: a VP factor is among the key factors exactly when the VP differ by 5
\* or more, naming the player with more VP.
C7_VPFactor ==
    Computed =>
        /\ "Player 1 leads on VP" \in Range(evaluation.key_factors)
               <=> VPDiff >= 5
        /\ "Player 2 leads on VP" \in Range(evaluation.key_factors)
               <=> VPDiff <= -5

\* C7 witness: the VP differ by exactly 5 and the VP factor is given.
C7_AtThreshold ==
    /\ Computed
    /\ VPDiff = 5
    /\ "Player 1 leads on VP" \in Range(evaluation.key_factors)

\* C8: key_factors has at most two entries, and a material factor comes
\* before a VP factor when both are there.
C8_FactorOrder ==
    Computed =>
        LET kf == evaluation.key_factors
        IN  /\ Len(kf) <= 2
            /\ \A i, j \in DOMAIN kf :
                   (kf[i] \in MaterialFactors /\ kf[j] \in VPFactors) => i < j

\* C8 witness: both factors are given.
C8_BothFactors ==
    /\ Computed
    /\ Range(evaluation.key_factors) \cap MaterialFactors # {}
    /\ Range(evaluation.key_factors) \cap VPFactors # {}

\* min(0.3 + 0.1 * t, 0.9)
ConfidenceAt(t) ==
    IF 3 + t > 9 THEN Rat(9, 10) ELSE Rat(3 + t, 10)

\* C9: the confidence is min(0.3 + 0.1 * turn_number, 0.9), which does not
\* decrease with the turn number, never exceeds 0.9 and stays in [0, 1].
C9_Confidence ==
    Computed =>
        /\ evaluation.confidence = ConfidenceAt(state.turn_number)
        /\ \A t \in TurnVals :
               t >= state.turn_number =>
                   RLe(evaluation.confidence, ConfidenceAt(t))
        /\ RLe(evaluation.confidence, Rat(9, 10))
        /\ RLe(Zero, evaluation.confidence)
        /\ RLe(evaluation.confidence, One)

\* C10: every call of evaluate returns a PositionEvaluation; none raises.
C10_NeverFails == Called => evaluation.raised = "none"

\* C11: no statement of evaluate changes a field of a GameState or of a
\* unit of its rosters.
C11_ReadOnly == [][games' = games]_vars

\* C11 witness: a call on a state with living and dead units has returned.
C11_Returned ==
    \E t \in DOMAIN frames :
        /\ frames[t].pc = "done"
        /\ Len(games[frames[t].arg].player1_units) = 2

\* C12: two finished calls on equal game states have equal results in
\* every field, on the same or on different evaluator instances and
\* whatever was evaluated in between.
C12_Deterministic ==
    \A t1, t2 \in DOMAIN frames :
        (/\ frames[t1].pc = "done" /\ frames[t2].pc = "done"
         /\ games[frames[t1].arg] = games[frames[t2].arg]) =>
            frames[t1].result = frames[t2].result

\* C12 witness: the first and the third call, on different evaluators, are
\* on equal states and gave factors; the second call gave other factors.
C12_SameStateTwice ==
    /\ frames # <<>>
    /\ frames[1].pc = "done" /\ frames[2].pc = "done"
    /\ frames[1].key_factors = 1 /\ frames[2].key_factors = 3
    /\ frames[1].self # frames[2].self
    /\ games[frames[1].arg] = games[frames[2].arg]
    /\ frames[1].result.key_factors # <<>>
    /\ lists[2] # lists[1]

\* C13: under every interleaving a call returns what evaluate returns on
\* its state when run alone, and the list of a call holds no factor of
\* another call.
C13_Interleaved ==
    \A t \in DOMAIN frames :
        LET f == frames[t]
            s == games[f.arg]
        IN  /\ f.pc = "done" => f.result = evaluate(s)
            /\ f.pc \in {"line79", "line96", "line105", "done"} =>
                   \A i \in DOMAIN lists[f.key_factors] :
                       lists[f.key_factors][i] \in
                           Range(evaluate(s).key_factors)

\* C13 witness: thread 1 ran a whole call, with factors, between two
\* statements of a call of thread 2 on another state with other factors.
C13_Overlap ==
    /\ frames # <<>>
    /\ frames[1].pc = "done"
    /\ frames[2].pc \in {"line96", "line105"}
    /\ frames[2].key_factors = 1 /\ frames[1].key_factors = 2
    /\ frames[1].arg # frames[2].arg
    /\ frames[1].result.key_factors # <<>>
    /\ lists[1] # <<>>
    /\ lists[1] # lists[2]

\* The units of both rosters of the constructed game.
GameUnits == Range(game.player1_units) \cup Range(game.player2_units)

\* C14: a GameState whose rosters hold a unit id twice is not constructed:
\* in every constructed GameState the positions of both rosters carry
\* pairwise different ids.
C14_UniqueIds ==
    (game # NoGame /\ game.raised = "none") =>
        LET ids == [i \in 1..(Len(game.player1_units) + Len(game.player2_units))
                      |-> IF i <= Len(game.player1_units)
                          THEN game.player1_units[i].id
                          ELSE game.player2_units[i - Len(game.player1_units)].id]
        IN  \A i, j \in DOMAIN ids : ids[i] = ids[j] => i = j

\* C15: get_unit on the constructed game returns the unit for the id of
\* every unit of either roster, and None for an id no unit carries.
C15_GetUnit ==
    lookup # <<>> =>
        LET unit_id == lookup[1].unit_id
            found == lookup[1].found
        IN  /\ \A u \in GameUnits : u.id = unit_id => found = <<u>>
            /\ (\A u \in GameUnits : u.id # unit_id) => found = <<>>

\* The units of a roster with status ACTIVE and wounds left, in order.
RECURSIVE Living(_, _)
Living(units, i) ==
    IF i = 0 THEN <<>>
    ELSE IF units[i].status = "ACTIVE" /\ units[i].wounds_current > 0
         THEN Append(Living(units, i - 1), units[i])
         ELSE Living(units, i - 1)

\* C16: active_units is the units with status ACTIVE and wounds left of
\* player1_units followed by those of player2_units; a unit at 0 wounds or
\* with another status is not alive.
C16_ActiveUnits ==
    /\ listing # <<>> =>
           listing[1] = Living(game.player1_units, Len(game.player1_units))
                        \o Living(game.player2_units, Len(game.player2_units))
    /\ game # NoGame =>
           \A u \in GameUnits :
               is_alive(u) <=> (u.status = "ACTIVE" /\ u.wounds_current > 0)

\* C16 witness: both rosters hold a living unit, and the two differ.
C16_LivingInBoth ==
    /\ listing # <<>>
    /\ Len(listing[1]) = 2
    /\ Len(game.player1_units) = 1
    /\ listing[1][1] # listing[1][2]

\* The band of a score: above 0.3, above 0.1 up to 0.3, below -0.3, from
\* -0.3 to below -0.1, and from -0.1 to 0.1.
BandOf(pa) ==
    IF RLt(Rat(3, 10), pa) THEN "Player 1 has a significant advantage"
    ELSE IF RLt(Rat(1, 10), pa) /\ RLe(pa, Rat(3, 10))
    THEN "Player 1 has a slight advantage"
    ELSE IF RLt(pa, Rat(-3, 10)) THEN "Player 2 has a significant advantage"
    ELSE IF RLe(Rat(-3, 10), pa) /\ RLt(pa, Rat(-1, 10))
    THEN "Player 2 has a slight advantage"
    ELSE "The position is roughly equal"

\* C17: explain puts player_advantage into one of five bands by strict
\* comparisons: exactly 0.3 and -0.3 are slight advantages, exactly 0.1 and
\* -0.1 are roughly equal.
C17_Bands ==
    [][explained' # explained =>
           /\ explained'[1].advantage = BandOf(obj.player_advantage)
           /\ obj.player_advantage = Rat(3, 10) =>
                  explained'[1].advantage = "Player 1 has a slight advantage"
           /\ obj.player_advantage = Rat(-3, 10) =>
                  explained'[1].advantage = "Player 2 has a slight advantage"
           /\ obj.player_advantage \in {Rat(1, 10), Rat(-1, 10)} =>
                  explained'[1].advantage = "The position is roughly equal"]_vars

\* C17 witness: explain was called on a score of exactly -0.3.
C17_AtBoundary ==
    /\ explained # <<>>
    /\ obj.player_advantage = Rat(-3, 10)
    /\ explained[1].advantage = "Player 2 has a slight advantage"

\* C18: the constructor raises a validation error exactly when
\* player_advantage is outside [-1, 1] or win_probability or confidence is
\* outside [0, 1], so it builds no object with a score out of range.
C18_Rejected ==
    [][(obj = NoObject /\ obj' # NoObject) =>
           (obj'.raised = "none" <=>
                /\ RLe(Rat(-1, 1), obj'.player_advantage)
                /\ RLe(obj'.player_advantage, Rat(1, 1))
                /\ RLe(Zero, obj'.win_probability)
                /\ RLe(obj'.win_probability, Rat(1, 1))
                /\ RLe(Zero, obj'.confidence)
                /\ RLe(obj'.confidence, Rat(1, 1)))]_vars

\* C18 witness: a construction with only player_advantage out of range, on
\* the low side, was rejected.
C18_LowAdvantage ==
    /\ obj.raised = "ValidationError"
    /\ obj.player_advantage = Rat(-3, 2)
    /\ obj.win_probability = Rat(1, 2)
    /\ obj.confidence = Rat(1, 2)

\* C19: no operation changes a field of a constructed PositionEvaluation.
C19_Immutable ==
    [][(obj # NoObject /\ obj.raised = "none") => obj' = obj]_vars

\* The calls of OpeningBookDB that test self._conn first.
Guarded == {"index_game", "query_matchup", "get_matchup_stats"}

\* C21: index_game, query_matchup and get_matchup_stats called while _conn
\* is None raise RuntimeError and leave the stored games as they are, and
\* close() leaves _conn None.
C21_RequiresConnection ==
    [][/\ (conn = "None" /\ reply'.op \in Guarded)
            => /\ reply'.raised = "RuntimeError"
               /\ historical_games' = historical_games
       /\ (reply'.op = "close" => conn' = "None")]_vars

\* index_game was refused after a close, with games in the file.
C21_RefusedAfterClose ==
    /\ conn = "None" /\ historical_games # {}
    /\ reply.op = "index_game" /\ reply.raised = "RuntimeError"

\* The columns index_game is given, on a row and on the arguments of a call.
Carries(r, a) ==
    /\ r.id = a.game_id
    /\ r.player1_faction = a.player1_faction
    /\ r.player2_faction = a.player2_faction
    /\ r.player1_list_hash = a.player1_list_hash
    /\ r.player2_list_hash = a.player2_list_hash
    /\ r.winner = a.winner
    /\ r.player1_vp = a.player1_vp /\ r.player2_vp = a.player2_vp
    /\ r.turn_count = a.turn_count

\* C22: index_game is an upsert on game_id.  A call that returns leaves
\* exactly one row with its game_id, carrying its arguments, and the rows
\* of the other ids as they were; no other call changes the table; so the
\* table has one row for each id, that of the last call for the id.
C22_Upsert ==
    [][IF reply'.op = "index_game" /\ reply'.raised = "none"
       THEN LET a == reply'.args
            IN  /\ Cardinality({r \in historical_games' :
                                   r.id = a.game_id}) = 1
                /\ \A r \in historical_games' :
                       r.id = a.game_id => Carries(r, a)
                /\ {r \in historical_games' : r.id # a.game_id}
                       = {r \in historical_games : r.id # a.game_id}
                /\ \A r, q \in historical_games' : r.id = q.id => r = q
       ELSE historical_games' = historical_games]_vars

\* A game id was indexed a second time: two rows were stored and the table
\* has one.
C22_Reindexed ==
    /\ reply.op = "index_game" /\ reply.raised = "none"
    /\ now = 2 /\ Cardinality(historical_games) = 1

\* The stored games of the ordered pair a query or a statistic names.
StoredFor(a) ==
    {r \in historical_games : /\ r.player1_faction = a.player_faction
                              /\ r.player2_faction = a.opponent_faction}

\* C23: query_matchup on an open connection returns the stored games of
\* the ordered pair, the latest game_date first, cut to the `limit` latest
\* ones (none when no game matches); each result has the id, the factions
\* and the winner of its row, and vp_differential = player1_vp - player2_vp.
C23_QueryMatchup ==
    (reply.op = "query_matchup" /\ conn = "open") =>
        LET a == reply.args
            res == reply.result
            stored == StoredFor(a)
        IN  /\ reply.raised = "none"
            /\ Len(res) = IF a.limit < Cardinality(stored) THEN a.limit
                          ELSE Cardinality(stored)
            /\ \A i \in 1..Len(res) :
                   \E r \in stored :
                       /\ res[i].id = r.id
                       /\ res[i].player1_faction = r.player1_faction
                       /\ res[i].player2_faction = r.player2_faction
                       /\ res[i].winner = r.winner
                       /\ res[i].game_date = r.game_date
                       /\ res[i].vp_differential = r.player1_vp - r.player2_vp
            /\ \A i, j \in 1..Len(res) :
                   i < j => res[i].game_date > res[j].game_date
            /\ \A r \in stored :
                   (\A i \in 1..Len(res) : res[i].id # r.id)
                       => \A i \in 1..Len(res) : r.game_date < res[i].game_date

\* A query with limit 1 for a pair that has two stored games.
C23_LimitCuts ==
    /\ reply.op = "query_matchup" /\ conn = "open"
    /\ reply.args.limit = 1 /\ Cardinality(StoredFor(reply.args)) = 2

\* C24: get_matchup_stats on an open connection returns None when the
\* ordered pair has no stored game, and otherwise games = the number of its
\* stored games, wins = those with winner 1, losses = those with winner 2,
\* games = wins + losses and win_rate = wins / games; the win_rate of a
\* FactionStatistics with games = 0 is 0.0.
C24_MatchupStats ==
    /\ (reply.op = "get_matchup_stats" /\ conn = "open") =>
           LET stored == StoredFor(reply.args)
               res == reply.result
           IN  /\ reply.raised = "none"
               /\ stored = {} => res = <<>>
               /\ stored # {} =>
                      /\ Len(res) = 1
                      /\ res[1].faction = reply.args.player_faction
                      /\ res[1].opponent = reply.args.opponent_faction
                      /\ res[1].games = Cardinality(stored)
                      /\ res[1].wins =
                             Cardinality({r \in stored : r.winner = 1})
                      /\ res[1].losses =
                             Cardinality({r \in stored : r.winner = 2})
                      /\ res[1].games = res[1].wins + res[1].losses
                      /\ res[1].win_rate = Rat(res[1].wins, res[1].games)
    /\ reply.op = "FactionStatistics" =>
           reply.result[1].win_rate =
               IF reply.args.games = 0 THEN Zero
               ELSE Rat(reply.args.wins, reply.args.games)

\* Statistics of a pair with one game won by each player.
C24_OneWinOneLoss ==
    /\ reply.op = "get_matchup_stats" /\ reply.raised = "none"
    /\ reply.result # <<>>
    /\ reply.result[1].wins = 1 /\ reply.result[1].losses = 1

\* C25: HistoricalGameResult(...) succeeds for winner 1 and 2 and raises
\* ValidationError for every other winner, so every HistoricalGameResult
\* made, directly or by query_matchup, has winner 1 or 2; index_game with
\* another winner raises and leaves the table as it was, so every stored
\* row has winner 1 or 2.
C25_WinnerValidated ==
    [][/\ reply'.op = "HistoricalGameResult" =>
              IF reply'.args.winner \in {1, 2}
              THEN reply'.raised = "none" /\ Len(reply'.result) = 1
              ELSE reply'.raised = "ValidationError" /\ reply'.result = <<>>
       /\ reply'.op \in {"HistoricalGameResult", "query_matchup"} =>
              \A i \in 1..Len(reply'.result) :
                  reply'.result[i].winner \in {1, 2}
       /\ (reply'.op = "index_game" /\ reply'.args.winner \notin {1, 2}) =>
              /\ reply'.raised # "none"
              /\ historical_games' = historical_games
       /\ \A r \in historical_games' : r.winner \in {1, 2}]_vars

\* A HistoricalGameResult with winner 0 was refused.
C25_WinnerZeroRefused ==
    /\ reply.op = "HistoricalGameResult" /\ reply.args.winner = 0
    /\ reply.raised = "ValidationError"

\* C28: __exit__ leaves _conn None, so that the guarded call after it
\* raises RuntimeError, and __enter__ returns the instance and leaves _conn
\* as it is.
C28_ExitDisconnects ==
    [][/\ reply'.op = "__exit__" => conn' = "None"
       /\ (reply.op = "__exit__" /\ reply'.op \in Guarded) =>
              reply'.raised = "RuntimeError"
       /\ reply'.op = "__enter__" =>
              conn' = conn /\ reply'.result = <<"self">>]_vars

\* games of the statistics a call returned, 0 for None.
GamesOf(res) == IF res = <<>> THEN 0 ELSE res[1].games
WinsOf(res) == IF res = <<>> THEN 0 ELSE res[1].wins
LossesOf(res) == IF res = <<>> THEN 0 ELSE res[1].losses

\* C29: statistics agree with the store.  get_matchup_stats called right
\* after query_matchup for the same pair with a limit above the number of
\* stored games reports as many games as the query returned; called right
\* after an index_game that returned, it counts the game of that call once,
\* under the pair and the winner of that call only, next to the games of
\* the other ids.
C29_StatsFollowStore ==
    [][(reply'.op = "get_matchup_stats" /\ reply'.raised = "none") =>
          LET p == reply'.args
              res == reply'.result
          IN  /\ ( /\ reply.op = "query_matchup" /\ reply.raised = "none"
                   /\ reply.args.player_faction = p.player_faction
                   /\ reply.args.opponent_faction = p.opponent_faction
                   /\ reply.args.limit > Cardinality(historical_games) )
                  => GamesOf(res) = Len(reply.result)
              /\ (reply.op = "index_game" /\ reply.raised = "none") =>
                     LET a == reply.args
                         others == {r \in StoredFor(p) : r.id # a.game_id}
                         mine == /\ a.player1_faction = p.player_faction
                                 /\ a.player2_faction = p.opponent_faction
                         count(w) ==
                             Cardinality({r \in others : r.winner = w})
                             + (IF mine /\ a.winner = w THEN 1 ELSE 0)
                     IN  /\ GamesOf(res) = count(1) + count(2)
                         /\ WinsOf(res) = count(1)
                         /\ LossesOf(res) = count(2)]_vars

\* Statistics asked after a game id was indexed a second time.
C29_AfterReindex ==
    /\ reply.op = "get_matchup_stats" /\ reply.raised = "none"
    /\ now = 2 /\ Cardinality(historical_games) = 1
    /\ GamesOf(reply.result) = 1

\* A feature is a number of [0, 1].
Normalized(x) == RLe(Zero, x) /\ RLe(x, One)

\* The rows of one roster: features in [0, 1], zero rows after the roster,
\* and the mask true on the first min(len(roster), max_units) slots.
RowsNormalized(rows, mask, units) ==
    /\ \A i \in DOMAIN rows : \A k \in DOMAIN rows[i] : Normalized(rows[i][k])
    /\ \A i \in DOMAIN rows : i > Len(units) => rows[i] = zeros
    /\ DOMAIN mask = 1..encoder.max_units
    /\ \A i \in DOMAIN mask :
           mask[i] <=> (i <= Len(units) /\ i <= encoder.max_units)

\* C26: encode gives normalized features: each of the 8 global features and
\* of the 12 features of every row lies in [0, 1], the rows after the roster
\* are zero, and the mask is true exactly on the first
\* min(len(roster), max_units) slots.
C26_Normalized ==
    encoded # <<>> =>
        LET e == encoded[1]
        IN  /\ Len(e.global_features) = 8
            /\ \A k \in 1..8 : Normalized(e.global_features[k])
            /\ RowsNormalized(e.player1_units, e.unit_mask_p1,
                              full_state.player1_units)
            /\ RowsNormalized(e.player2_units, e.unit_mask_p2,
                              full_state.player2_units)

\* The factor that names the other player.
OtherPlayer(f) ==
    CASE f = "Player 1 has more material" -> "Player 2 has more material"
      [] f = "Player 2 has more material" -> "Player 1 has more material"
      [] f = "Player 1 leads on VP" -> "Player 2 leads on VP"
      [] f = "Player 2 leads on VP" -> "Player 1 leads on VP"

\* C27: evaluate is antisymmetric in the players.  On the state with the
\* rosters and the victory points exchanged it computes the negated
\* material_score, vp_score and player_advantage, the same confidence, and
\* the key factors with the other player named.
C27_Antisymmetric ==
    (Called /\ mirrored # NoEvaluation) =>
        /\ mirrored.raised = evaluation.raised
        /\ Computed =>
               /\ mirrored.material_score = RNeg(evaluation.material_score)
               /\ mirrored.vp_score = RNeg(evaluation.vp_score)
               /\ mirrored.player_advantage = RNeg(evaluation.player_advantage)
               /\ mirrored.confidence = evaluation.confidence
               /\ Len(mirrored.key_factors) = Len(evaluation.key_factors)
               /\ \A i \in DOMAIN mirrored.key_factors :
                      mirrored.key_factors[i]
                          = OtherPlayer(evaluation.key_factors[i])

\* Both calls returned, on a state where player 2 leads in material and
\* player 1 on victory points.
C27_BothFactorsMirrored ==
    /\ Called /\ mirrored # NoEvaluation /\ mirrored.raised = "none"
    /\ evaluation.key_factors
           = <<"Player 2 has more material", "Player 1 leads on VP">>

\* The positions of the units with the id looked up, in a sequence of units.
Matches(units) ==
    {i \in DOMAIN units : units[i].id = lookup[1].unit_id}

\* C30: get_unit returns the first unit with the id in the order
\* player1_units then player2_units, so a unit of player 1 shadows a unit of
\* player 2 with the same id; it returns None when no unit has the id, and
\* it leaves both rosters as they were.
C30_FirstMatch ==
    [][lookup' # lookup =>
          /\ game' = game
          /\ LET hit == lookup'[1]
                 p1 == game.player1_units
                 p2 == game.player2_units
                 in1 == {i \in DOMAIN p1 : p1[i].id = hit.unit_id}
                 in2 == {i \in DOMAIN p2 : p2[i].id = hit.unit_id}
                 first(set) == CHOOSE i \in set : \A j \in set : i <= j
             IN  /\ in1 # {} => hit.found = <<p1[first(in1)]>>
                 /\ (in1 = {} /\ in2 # {}) => hit.found = <<p2[first(in2)]>>
                 /\ (in1 = {} /\ in2 = {}) => hit.found = <<>>]_vars

\* The id looked up is carried by a unit of each player, the two units
\* differ, and the unit of player 1 was returned.
C30_Shadowed ==
    /\ lookup # <<>>
    /\ Matches(game.player1_units) # {} /\ Matches(game.player2_units) # {}
    /\ game.player1_units[1] # game.player2_units[1]
    /\ lookup[1].found = <<game.player1_units[1]>>

====
